---- MODULE Spec2Model ----
(***************************************************************************)
(* Model of project_threads.py: the Mandelbrot benchmark harness that      *)
(* splits an N x N grid into column bands, classifies every band in its    *)
(* own process, joins the processes and rasterises the shared dictionary.  *)
(*                                                                         *)
(* Numbers.  The program computes with Python floats.  A coordinate is     *)
(* modelled as an exact rational <<n, d>> in lowest terms (d > 0); range   *)
(* endpoints are given in half units (-1.5 is -3).  For the default ranges *)
(* and the grid sizes explored here, the products and sums the grid        *)
(* generator forms are the exact values of these rationals.                *)
(***************************************************************************)
EXTENDS Integers, Sequences, FiniteSets

\* ---------------------------------------------------------------- bounds
MaxWorkers == 2
MaxSide == 4
MaxSizes == 2
MaxReps == 2
MaxSteps == 1

\* ------------------------------------------------------------- rationals
Abs(n) == IF n < 0 THEN -n ELSE n

RECURSIVE GCD(_, _)
GCD(a, b) == IF b = 0 THEN a ELSE GCD(b, a % b)

LCM(a, b) == (a \div GCD(a, b)) * b

\* The float with value n/d, in lowest terms.
Norm(n, d) ==
    LET g == GCD(Abs(n), d)
    IN  IF n = 0 THEN <<0, 1>> ELSE <<n \div g, d \div g>>

FAdd(a, b) ==
    LET l == LCM(a[2], b[2])
    IN  Norm(a[1] * (l \div a[2]) + b[1] * (l \div b[2]), l)

FNeg(a) == <<-a[1], a[2]>>

FSub(a, b) == FAdd(a, FNeg(b))

FMul(a, b) ==
    LET g1 == GCD(Abs(a[1]), b[2])
        g2 == GCD(Abs(b[1]), a[2])
    IN  IF a[1] = 0 \/ b[1] = 0 THEN <<0, 1>>
        ELSE <<(a[1] \div g1) * (b[1] \div g2), (a[2] \div g2) * (b[2] \div g1)>>

FLess(a, b) == a[1] * b[2] < b[1] * a[2]

FGeq(a, b) == ~FLess(a, b)

FInt(n) == <<n, 1>>

\* ------------------------------------------------------ mandelbrodt_pixel
\* Mutant of LoopCond: the loop stops one pass earlier.
LoopCondStrict(counter, steps_) == counter < steps_

\* while counter <= steps
LoopCond(counter, steps_) == counter <= steps_

\* Mutant of Escaped: the threshold itself does not count as escaped.
EscapedStrict(re_z_square, im_z_square) ==
    FLess(FInt(4), FAdd(re_z_square, im_z_square))

\* if re_z_square + im_z_square >= 4
Escaped(re_z_square, im_z_square) ==
    FGeq(FAdd(re_z_square, im_z_square), FInt(4))

\* One pass of the while loop with the loop variables (re_z, im_z, counter).
RECURSIVE PixelLoop(_, _, _, _, _, _)
PixelLoop(x, y, steps_, re_z, im_z, counter) ==
    IF ~LoopCond(counter, steps_) THEN TRUE
    ELSE LET re_z_square == FMul(re_z, re_z)
             im_z_square == FMul(im_z, im_z)
             re_buf == re_z
             im_buf == im_z
             re_new == FAdd(FSub(re_z_square, im_z_square), x)
             im_new == FAdd(FMul(FMul(FInt(2), re_buf), im_buf), y)
         IN  IF Escaped(re_z_square, im_z_square) THEN FALSE
             ELSE PixelLoop(x, y, steps_, re_new, im_new, counter + 1)

\* The frame of a call: the arguments, the locals, the z each pass found
\* (seen) and where the call is (ret: "run", "True", "False").
PixelCall(x, y, steps_) ==
    [x |-> x, y |-> y, steps |-> steps_, re_z |-> FInt(0), im_z |-> FInt(0),
     counter |-> 0, seen |-> <<>>, ret |-> "run"]

\* The frame after one test of the while condition and, when it holds, one
\* pass of the body: the squares of the current z, the update of z, the test.
PixelPass(f) ==
    IF ~LoopCond(f.counter, f.steps) THEN [f EXCEPT !.ret = "True"]
    ELSE LET re_z_square == FMul(f.re_z, f.re_z)
             im_z_square == FMul(f.im_z, f.im_z)
             re_buf == f.re_z
             im_buf == f.im_z
         IN  [f EXCEPT !.counter = @ + 1,
                       !.seen = Append(@, <<f.re_z, f.im_z>>),
                       !.re_z = FAdd(FSub(re_z_square, im_z_square), f.x),
                       !.im_z = FAdd(FMul(FMul(FInt(2), re_buf), im_buf), f.y),
                       !.ret = IF Escaped(re_z_square, im_z_square) THEN "False" ELSE "run"]

mandelbrodt_pixel(x, y, steps_) == PixelLoop(x, y, steps_, FInt(0), FInt(0), 0)

\* int(bool)
BoolInt(b) == IF b THEN 1 ELSE 0

\* -------------------------------------------------------- mandelbrodt_job
\* The list the job builds: one [x, y, member] per sample, in band order.
JobReturnList(xy_values, steps_) ==
    [k \in 1..Len(xy_values) |->
        <<xy_values[k][1], xy_values[k][2],
          BoolInt(mandelbrodt_pixel(xy_values[k][1], xy_values[k][2], steps_))>>]

\* Mutant of JobKey: every job stores under the same key.
JobKeyShared(procnum) == 0

\* The key the job stores its list under.
JobKey(procnum) == procnum

\* ----------------------------------------------------------- get_xy_pairs
Min(a, b) == IF a < b THEN a ELSE b

Max(a, b) == IF a > b THEN a ELSE b

\* Mutant of Slice: the end index taken as inclusive.
SliceInclusive(s, a, b) ==
    LET lo == IF a < Len(s) THEN a ELSE Len(s)
        hi == IF b + 1 < Len(s) THEN b + 1 ELSE Len(s)
    IN  IF hi <= lo THEN <<>> ELSE SubSeq(s, lo + 1, hi)

\* Python's s[a:b] for 0 <= a, b (indices past the end are clamped).
Slice(s, a, b) ==
    LET lo == Min(a, Len(s))
        hi == Min(b, Len(s))
    IN  IF hi <= lo THEN <<>> ELSE SubSeq(s, lo + 1, hi)

\* [lo + k * (hi - lo) / side_size for k in range(side_size)] after the
\* endpoints were put in order; rng is in half units.
AxisValues(side_size, rng) ==
    LET v_min == Min(rng[1], rng[2])
        v_max == Max(rng[1], rng[2])
        v_step == Norm(v_max - v_min, 2 * side_size)
    IN  [k \in 1..side_size |-> FAdd(Norm(v_min, 2), FMul(FInt(k - 1), v_step))]

\* Mutant of IntervalLen: the quotient rounded up.
IntervalLenCeil(side_size, nworkers) == (side_size + nworkers - 1) \div nworkers

\* int(side_size / num_workers)
IntervalLen(side_size, nworkers) == side_size \div nworkers

\* Mutant of Intervals: the list built from range(1, num_workers + 2).
IntervalsFromOne(side_size, nworkers, i) == (i + 1) * (side_size \div nworkers)

\* intervals[i], i in 0..num_workers
Intervals(side_size, nworkers, i) == i * IntervalLen(side_size, nworkers)

\* Mutant of Pairs: [(x, y) for y in ys for x in xs]
PairsYOuter(xs, ys) ==
    [k \in 1..(Len(xs) * Len(ys)) |->
        <<xs[((k - 1) % Len(xs)) + 1], ys[((k - 1) \div Len(xs)) + 1]>>]

\* [(x, y) for x in xs for y in ys]
Pairs(xs, ys) ==
    [k \in 1..(Len(xs) * Len(ys)) |->
        <<xs[((k - 1) \div Len(ys)) + 1], ys[((k - 1) % Len(ys)) + 1]>>]

\* Mutant of get_xy_pairs: the last band also takes the leftover x-values.
get_xy_pairsKeepRest(workers, nworkers, side_size, xrng, yrng) ==
    LET x_values == AxisValues(side_size, xrng)
        y_values == AxisValues(side_size, yrng)
    IN  [b \in 1..workers |->
            Pairs(Slice(x_values,
                        (b - 1) * (side_size \div nworkers),
                        IF b = workers THEN side_size ELSE b * (side_size \div nworkers)),
                  y_values)]

\* super_pairs: band i (0-based) is element i + 1.  nworkers is the global
\* num_workers the interval arithmetic reads, workers the parameter that
\* counts the bands.
get_xy_pairs(workers, nworkers, side_size, xrng, yrng) ==
    LET x_values == AxisValues(side_size, xrng)
        y_values == AxisValues(side_size, yrng)
    IN  [b \in 1..workers |->
            Pairs(Slice(x_values,
                        Intervals(side_size, nworkers, b - 1),
                        Intervals(side_size, nworkers, b)),
                  y_values)]

\* ----------------------------------------------------------- draw_fractal
Range(s) == {s[k] : k \in 1..Len(s)}

Column(rows, c) == [k \in 1..Len(rows) |-> rows[k][c]]

\* The least element of a non-empty set of floats.
Least(S) == CHOOSE m \in S : \A o \in S : ~FLess(o, m)

RECURSIVE SortSet(_)
SortSet(S) ==
    IF S = {} THEN <<>>
    ELSE <<Least(S)>> \o SortSet(S \ {Least(S)})

\* np.unique(arr): the distinct values in ascending order.
unique(arr) == SortSet(Range(arr))

\* Mutant of argsort: the indices of the values from largest to smallest.
argsortDescending(u) ==
    [k \in 1..Len(u) |->
        (CHOOSE m \in 1..Len(u) :
            Cardinality({o \in 1..Len(u) :
                FLess(u[m], u[o]) \/ (u[o] = u[m] /\ o < m)}) = k - 1) - 1]

\* np.argsort(u): position k holds the 0-based index of the k-th smallest.
argsort(u) ==
    [k \in 1..Len(u) |->
        (CHOOSE m \in 1..Len(u) :
            Cardinality({o \in 1..Len(u) :
                FLess(u[o], u[m]) \/ (u[o] = u[m] /\ o < m)}) = k - 1) - 1]

\* The distinct values of arr in order of first appearance.
RECURSIVE uniqueUnsorted(_)
uniqueUnsorted(arr) ==
    IF Len(arr) = 0 THEN <<>>
    ELSE LET front == uniqueUnsorted(SubSeq(arr, 1, Len(arr) - 1))
         IN  IF \E k \in 1..Len(front) : front[k] = arr[Len(arr)]
             THEN front
             ELSE Append(front, arr[Len(arr)])

\* Mutant of get_ranks: a value is numbered by its first appearance in arr,
\* not by its place among the sorted values.
get_ranksFirstSeen(arr) ==
    LET u == uniqueUnsorted(arr)
    IN  [k \in 1..Len(arr) |-> (CHOOSE m \in 1..Len(u) : u[m] = arr[k]) - 1]

\* get_ranks(arr): ranks[np.where(unique == element)] for every element.
get_ranks(arr) ==
    LET u == unique(arr)
        ranks == argsort(u)
    IN  [k \in 1..Len(arr) |->
            ranks[CHOOSE m \in 1..Len(u) : u[m] = arr[k]]]

NoImage == [size |-> <<0, 0>>, white |-> {}, ok |-> FALSE]

\* Mutant of draw_fractal: a non-member is painted black, so a pixel ends
\* with the colour of the last sample that falls on it.
draw_fractalRepaint(fractal_list) ==
    IF Len(fractal_list) = 0 THEN NoImage
    ELSE LET x == get_ranks(Column(fractal_list, 1))
             y == get_ranks(Column(fractal_list, 2))
             color == Column(fractal_list, 3)
             last(k) == \A m \in (k + 1)..Len(fractal_list) : <<x[m], y[m]>> # <<x[k], y[k]>>
         IN  [size  |-> <<Cardinality(Range(x)), Cardinality(Range(y))>>,
              white |-> {<<x[k], y[k]>> :
                            k \in {m \in 1..Len(fractal_list) : color[m] # 0 /\ last(m)}},
              ok    |-> TRUE]

\* Mutant of draw_fractal: the pixel is put at (y, x).
draw_fractalTransposed(fractal_list) ==
    IF Len(fractal_list) = 0 THEN NoImage
    ELSE LET x == get_ranks(Column(fractal_list, 1))
             y == get_ranks(Column(fractal_list, 2))
             color == Column(fractal_list, 3)
         IN  [size  |-> <<Cardinality(Range(x)), Cardinality(Range(y))>>,
              white |-> {<<y[k], x[k]>> : k \in {m \in 1..Len(fractal_list) : color[m] # 0}},
              ok    |-> TRUE]

\* The image draw_fractal saves: its size and the pixels put to white.  An
\* empty list has no columns to index: the call raises (ok = FALSE).
draw_fractal(fractal_list) ==
    IF Len(fractal_list) = 0 THEN NoImage
    ELSE LET x == get_ranks(Column(fractal_list, 1))
             y == get_ranks(Column(fractal_list, 2))
             color == Column(fractal_list, 3)
         IN  [size  |-> <<Cardinality(Range(x)), Cardinality(Range(y))>>,
              white |-> {<<x[k], y[k]>> : k \in {m \in 1..Len(fractal_list) : color[m] # 0}},
              ok    |-> TRUE]

\* ------------------------------------------------------------ return_dict
\* The managed dict: a sequence of [key, value] in insertion order.
DictKeys(d) == {d[k].key : k \in 1..Len(d)}

\* d[key] = value: a present key keeps its place, a new one goes last.
DictSet(d, key, value) ==
    IF key \in DictKeys(d)
    THEN [k \in 1..Len(d) |-> IF d[k].key = key THEN [key |-> key, value |-> value] ELSE d[k]]
    ELSE Append(d, [key |-> key, value |-> value])

RECURSIVE Concat(_)
Concat(ss) == IF Len(ss) = 0 THEN <<>> ELSE Head(ss) \o Concat(Tail(ss))

\* output = []; for job_result in return_dict.values(): output.extend(...)
Flatten(d) == Concat([k \in 1..Len(d) |-> d[k].value])

\* ------------------------------------------------------------------ state
VARIABLES
    args,         \* the parsed command line (constant after Init)
    pc,           \* where the main process is
    side_idx,     \* 1-based position of the outer loop in args.side_size
    rep,          \* the inner loop variable
    job_pairs,    \* the bands of the current run
    i,            \* the enumerate index of the dispatch loop
    jobs,         \* every Process ever started, in start order
    jn,           \* 1-based position of the join loop in jobs
    return_dict,  \* the managed dict shared with the workers
    times,        \* one entry per run whose join loop completed
    printed,      \* the 'Done size .., rep ..' lines printed so far
    files,        \* the images saved, by (side_size, rep) of the file name
    csv,          \* the rows of the timing file
    output,       \* the flattened result list handed to draw_fractal
    writer,       \* per key of return_dict, the position in jobs of the
                  \* process that stored it last (0: never stored)
    frame         \* the call of mandelbrodt_pixel followed pass by pass

vars == <<args, pc, side_idx, rep, job_pairs, i, jobs, jn, return_dict,
          times, printed, files, csv, output, writer, frame>>

\* No call of mandelbrodt_pixel is being followed.
NoFrame == [ret |-> "none"]

\* The ranges, in half units.  Only the defaults [-2, 1] and [-1.5, 1.5] reach
\* get_xy_pairs as numbers: the options have no type, so a range given on
\* the command line arrives as two strings.
XRanges == {<<-4, 2>>}

YRanges == {<<-3, 3>>}

SideLists == UNION {[1..n -> 1..MaxSide] : n \in 1..MaxSizes}

Configs ==
    [num_workers   : 1..MaxWorkers,
     xrange        : XRanges,
     yrange        : YRanges,
     side_size     : SideLists,
     steps         : 1..MaxSteps,
     reps          : 1..MaxReps,
     draw_fractals : BOOLEAN]

\* The index of the current run among the runs of the harness, from 0.
RunNo == (side_idx - 1) * args.reps + rep

CurSide == args.side_size[side_idx]

Init ==
    /\ args \in Configs
    /\ pc = "loop"
    /\ side_idx = 1
    /\ rep = 0
    /\ job_pairs = <<>>
    /\ i = 0
    /\ jobs = <<>>
    /\ jn = 1
    /\ return_dict = <<>>
    /\ times = <<>>
    /\ printed = <<>>
    /\ files = <<>>
    /\ csv = <<>>
    /\ output = <<>>
    /\ writer = [k \in 0..(args.num_workers - 1) |-> 0]
    /\ frame = NoFrame

\* ----------------------------------------------------------- main process
\* for side_size ...: for rep ...: tic; job_pairs = get_xy_pairs(...)
StartRun ==
    /\ pc = "loop"
    /\ side_idx <= Len(args.side_size)
    /\ job_pairs' = get_xy_pairs(args.num_workers, args.num_workers, CurSide,
                                 args.xrange, args.yrange)
    /\ i' = 0
    /\ pc' = "dispatch"
    /\ UNCHANGED <<args, side_idx, rep, jobs, jn, return_dict, times, printed,
                   files, csv, output, writer, frame>>

\* The Process object built for band number idx of the current run.
NewProcess(xy_values, steps_, idx) ==
    [procnum |-> idx, xy_values |-> xy_values, steps |-> steps_,
     state |-> "started", run |-> RunNo, wrote |-> <<>>]

\* One pass of the dispatch loop: Process(...), jobs.append(p), p.start()
Dispatch ==
    /\ pc = "dispatch"
    /\ i < Len(job_pairs)
    /\ jobs' = Append(jobs, NewProcess(job_pairs[i + 1], args.steps, i))
    /\ i' = i + 1
    /\ jn' = 1
    /\ pc' = IF i + 1 < Len(job_pairs) THEN "dispatch" ELSE "join"
    /\ UNCHANGED <<args, side_idx, rep, job_pairs, return_dict, times, printed,
                   files, csv, output, writer, frame>>

\* Mutant of Joinable: a join that does not wait (join(timeout=0)).
JoinableNoWait(proc) == TRUE

\* proc.join() returns once the process has terminated, whatever its exit code.
Joinable(proc) == proc.state # "started"

\* Mutant of Join: the loop leaves out the last process of jobs.
JoinAllButLast ==
    /\ pc = "join"
    /\ jn <= Len(jobs)
    /\ Joinable(jobs[jn])
    /\ jn' = jn + 1
    /\ pc' = IF jn + 1 < Len(jobs) THEN "join" ELSE "joined"
    /\ UNCHANGED <<args, side_idx, rep, job_pairs, i, jobs, return_dict, times,
                   printed, files, csv, output, writer, frame>>

\* One pass of the join loop over jobs (every process ever started).
Join ==
    /\ pc = "join"
    /\ jn <= Len(jobs)
    /\ Joinable(jobs[jn])
    /\ jn' = jn + 1
    /\ pc' = IF jn + 1 <= Len(jobs) THEN "join" ELSE "joined"
    /\ UNCHANGED <<args, side_idx, rep, job_pairs, i, jobs, return_dict, times,
                   printed, files, csv, output, writer, frame>>

\* The loop variables after the current pass of the two for loops.
NextRep == IF rep + 1 < args.reps THEN rep + 1 ELSE 0

NextSideIdx == IF rep + 1 < args.reps THEN side_idx ELSE side_idx + 1

\* times.append(time.time() - tic); print(f'Done size {side_size}, rep {rep}')
Done ==
    /\ pc = "joined"
    /\ times' = Append(times, [run |-> RunNo])
    /\ printed' = Append(printed, [side_size |-> CurSide, rep |-> rep, run |-> RunNo])
    /\ IF args.draw_fractals
       THEN /\ pc' = "draw"
            /\ UNCHANGED <<side_idx, rep>>
       ELSE /\ pc' = "loop"
            /\ side_idx' = NextSideIdx
            /\ rep' = NextRep
    /\ UNCHANGED <<args, job_pairs, i, jobs, jn, return_dict, files, csv, output,
                   writer, frame>>

\* files[name] = image
FilePut(fs, name, image) ==
    IF \E k \in 1..Len(fs) : fs[k].name = name
    THEN [k \in 1..Len(fs) |-> IF fs[k].name = name THEN [name |-> name, image |-> image] ELSE fs[k]]
    ELSE Append(fs, [name |-> name, image |-> image])

\* output = flattened return_dict.values(); draw_fractal(output, fname).
\* An empty output makes draw_fractal raise: the main process dies.
Draw ==
    /\ pc = "draw"
    /\ output' = Flatten(return_dict)
    /\ LET im == draw_fractal(output')
       IN  /\ IF im.ok
              THEN /\ files' = FilePut(files, <<CurSide, rep>>, im)
                   /\ pc' = "loop"
                   /\ side_idx' = NextSideIdx
                   /\ rep' = NextRep
              ELSE /\ pc' = "crashed"
                   /\ UNCHANGED <<files, side_idx, rep>>
    /\ UNCHANGED <<args, job_pairs, i, jobs, jn, return_dict, times, printed, csv,
                   writer, frame>>

\* Mutant of SizesPerRun: the two loops of the comprehension exchanged.
SizesPerRunRepOuter ==
    [k \in 1..(Len(args.side_size) * args.reps) |->
        args.side_size[((k - 1) % Len(args.side_size)) + 1]]

\* [size for size in args.side_size for _ in range(args.reps)]
SizesPerRun ==
    [k \in 1..(Len(args.side_size) * args.reps) |->
        args.side_size[((k - 1) \div args.reps) + 1]]

\* zip(a, b)
Zip(a, b) == [k \in 1..Min(Len(a), Len(b)) |-> <<a[k], b[k]>>]

\* After the loops: the timing file, one row per zipped (time, side_size).
WriteCsv ==
    /\ pc = "loop"
    /\ side_idx > Len(args.side_size)
    /\ csv' = [k \in 1..Len(Zip(times, SizesPerRun)) |->
                  [side_size |-> Zip(times, SizesPerRun)[k][2],
                   time |-> Zip(times, SizesPerRun)[k][1]]]
    /\ pc' = "finished"
    /\ UNCHANGED <<args, side_idx, rep, job_pairs, i, jobs, jn, return_dict,
                   times, printed, files, output, writer, frame>>

\* --------------------------------------------------------- worker process
\* mandelbrodt_job run to its end: return_dict[procnum] = return_list.
Job(p) ==
    /\ jobs[p].state = "started"
    /\ return_dict' = DictSet(return_dict, JobKey(jobs[p].procnum),
                              JobReturnList(jobs[p].xy_values, jobs[p].steps))
    /\ jobs' = [jobs EXCEPT ![p].state = "exited",
                            ![p].wrote = Append(@, JobKey(jobs[p].procnum))]
    /\ writer' = [k \in DOMAIN writer \cup {JobKey(jobs[p].procnum)} |->
                      IF k = JobKey(jobs[p].procnum) THEN p ELSE writer[k]]
    /\ UNCHANGED <<args, pc, side_idx, rep, job_pairs, i, jn, times, printed,
                   files, csv, output, frame>>

\* The process dies (signal, out of memory) before its store.
Crash(p) ==
    /\ jobs[p].state = "started"
    /\ jobs' = [jobs EXCEPT ![p].state = "crashed"]
    /\ UNCHANGED <<args, pc, side_idx, rep, job_pairs, i, jn, return_dict, times,
                   printed, files, csv, output, writer, frame>>

Next ==
    \/ StartRun
    \/ Dispatch
    \/ Join
    \/ Done
    \/ Draw
    \/ WriteCsv
    \/ \E p \in 1..Len(jobs) : Job(p)
    \/ \E p \in 1..Len(jobs) : Crash(p)

Spec == Init /\ [][Next]_vars

\* ----------------------------------------------------------------- claims
W == args.num_workers

JobsOfRun(r) == {p \in 1..Len(jobs) : jobs[p].run = r}

CrashedIn(r) == \E p \in JobsOfRun(r) : jobs[p].state = "crashed"

NoCrashEver == \A p \in 1..Len(jobs) : jobs[p].state # "crashed"

\* The join loop of the current run has completed and the next run has not
\* started.
AfterJoin == pc \in {"joined", "draw"}

\* C1: join barrier.  Whenever the aggregator is about to read return_dict
\* (the flattening in Draw), all num_workers workers of the run have been
\* dispatched and no process, of this run or an earlier one, is still running.
C1_JoinBarrier ==
    pc = "draw" =>
        /\ Cardinality(JobsOfRun(RunNo)) = W
        /\ \A p \in 1..Len(jobs) : jobs[p].state # "started"

\* C1 witness: the aggregator is about to read in a second or later run of a
\* two-worker configuration.
C1_Witness ==
    /\ pc = "draw"
    /\ RunNo >= 1
    /\ W = 2
    /\ Cardinality(JobsOfRun(RunNo)) = 2

\* C2: worker failure is fatal.  A run in which a worker terminated
\* abnormally is never reported as done, and the aggregator never gets to
\* flatten the collection of such a run.
C2_WorkerFailureFatal ==
    \A p \in 1..Len(jobs) :
        jobs[p].state = "crashed" =>
            /\ \A k \in 1..Len(printed) : printed[k].run # jobs[p].run
            /\ ~(pc = "draw" /\ RunNo = jobs[p].run)

\* C3: no state carries over.  Every Band Result in the collection the
\* aggregator is about to flatten was stored by a worker of the current run.
C3_NoCarryOver ==
    pc = "draw" =>
        \A k \in 1..Len(return_dict) :
            /\ writer[return_dict[k].key] # 0
            /\ jobs[writer[return_dict[k].key]].run = RunNo

RECURSIVE SumLen(_)
SumLen(ss) == IF Len(ss) = 0 THEN 0 ELSE Len(Head(ss)) + SumLen(Tail(ss))

\* The number of Classification Results over all keys of d.
TotalResults(d) == SumLen([k \in 1..Len(d) |-> d[k].value])

\* C4: aggregation completeness.  After the join barrier of a run in which no
\* worker failed, the collection has exactly the keys 0..W-1, one entry each,
\* and (floor(side_size / W) * W) * side_size Classification Results in all.
C4_AggregationComplete ==
    (AfterJoin /\ ~CrashedIn(RunNo)) =>
        /\ Len(return_dict) = W
        /\ DictKeys(return_dict) = 0..(W - 1)
        /\ TotalResults(return_dict) = ((CurSide \div W) * W) * CurSide

\* C4 witness: a later run with a side_size the worker count does not divide
\* has passed its barrier without a failure, after a failure in an earlier run.
C4_Witness ==
    /\ AfterJoin
    /\ RunNo >= 1
    /\ ~CrashedIn(RunNo)
    /\ CrashedIn(RunNo - 1)
    /\ CurSide % W # 0
    /\ TotalResults(return_dict) > 0

\* The coordinate sequences of the current run.
XValues == AxisValues(CurSide, args.xrange)

YValues == AxisValues(CurSide, args.yrange)

\* job_pairs holds the bands of the current run.
HaveBands == pc \in {"dispatch", "join", "joined", "draw"}

\* The 1-based indices in xs of the x-values that occur in a band.
XIdxOf(xs, band) ==
    {a \in 1..Len(xs) : \E k \in 1..Len(band) : band[k][1] = xs[a]}

\* Per band of the current run (from 1), the x indices it holds.
BandXIdxs ==
    LET xs == XValues
    IN  [b \in 1..Len(job_pairs) |-> XIdxOf(xs, job_pairs[b])]

BandXIdx(b) == BandXIdxs[b]

\* occ[a][c]: how often the sample with x index a and y index c occurs in a
\* result list.
OccTable(list) ==
    LET xs == XValues
        ys == YValues
    IN  [a \in 1..Len(xs) |-> [c \in 1..Len(ys) |->
            Cardinality({k \in 1..Len(list) : list[k][1] = xs[a] /\ list[k][2] = ys[c]})]]

\* The worker of band b (from 0) of the current run stored its result.
Completed(b) ==
    \E p \in JobsOfRun(RunNo) : jobs[p].procnum = b /\ jobs[p].state = "exited"

\* The entry of key was stored by a worker of the current run.
FreshKey(key) == writer[key] # 0 /\ jobs[writer[key]].run = RunNo

\* The Band Results stored in the current run, flattened in dict order.
FreshList ==
    Concat([k \in 1..Len(return_dict) |->
               IF FreshKey(return_dict[k].key) THEN return_dict[k].value ELSE <<>>])

\* C5 (as claimed): after all workers of a run join, the collection holds
\* exactly one entry per band and its samples are the full side_size x
\* side_size grid, each sample exactly once.  Stated for executions in which
\* no worker ever failed and every worker has at least one column, the
\* reading most favourable to the claim.
C5_FullGrid ==
    (AfterJoin /\ NoCrashEver /\ CurSide >= W) =>
        /\ Len(return_dict) = W
        /\ DictKeys(return_dict) = 0..(W - 1)
        /\ Len(Flatten(return_dict)) = CurSide * CurSide
        /\ LET occ == OccTable(Flatten(return_dict))
           IN  \A a, c \in 1..CurSide : occ[a][c] = 1

\* C5 (amended): after all workers of a run join, the collection holds at
\* most one entry per band index 0..W-1, with an entry stored in this run for
\* every band whose worker completed; the Band Results stored in this run
\* hold exactly the samples of those bands, each once, and the bands together
\* are the first floor(side_size / W) * W x-values crossed with all y-values.
C5_TruncatedGrid ==
    AfterJoin =>
        LET L == CurSide \div W
            Covered(a) == a <= L * W /\ Completed((a - 1) \div L)
            occ == OccTable(FreshList)
        IN  /\ Len(return_dict) = Cardinality(DictKeys(return_dict))
            /\ DictKeys(return_dict) \subseteq 0..(W - 1)
            /\ \A b \in 0..(W - 1) :
                   Completed(b) => b \in DictKeys(return_dict) /\ FreshKey(b)
            /\ \A a, c \in 1..CurSide :
                   occ[a][c] = IF Covered(a) THEN 1 ELSE 0
            /\ Len(FreshList) =
                   Cardinality({ac \in (1..CurSide) \X (1..CurSide) : Covered(ac[1])})
            /\ ~CrashedIn(RunNo) =>
                   /\ Len(return_dict) = W
                   /\ FreshList = Flatten(return_dict)
                   /\ Len(FreshList) = (L * W) * CurSide

\* C5 witness: a run whose side_size the worker count does not divide has
\* passed its barrier without failure with a non-empty truncated grid.
C5_Witness ==
    /\ AfterJoin
    /\ ~CrashedIn(RunNo)
    /\ CurSide % W # 0
    /\ CurSide > W
    /\ Len(Flatten(return_dict)) = (CurSide - 1) * CurSide

\* A run r has started all its workers.
DispatchedAll(r) == r < RunNo \/ pc \in {"join", "joined", "draw", "crashed"}

\* C6: exclusive write slot.  Every run dispatches one worker per band with
\* the distinct indices 0..W-1; worker i stores under key i only, once if it
\* completes and never otherwise; no two live workers share a key.
C6_ExclusiveSlot ==
    /\ \A r \in 0..RunNo :
           LET J == JobsOfRun(r)
           IN  /\ {jobs[p].procnum : p \in J} = 0..(Cardinality(J) - 1)
               /\ DispatchedAll(r) => Cardinality(J) = W
    /\ \A p \in 1..Len(jobs) :
           /\ jobs[p].state = "exited" => jobs[p].wrote = <<jobs[p].procnum>>
           /\ jobs[p].state # "exited" => jobs[p].wrote = <<>>
           /\ jobs[p].state = "exited" => jobs[p].procnum \in DictKeys(return_dict)
    /\ \A p, q \in 1..Len(jobs) :
           (p # q /\ jobs[p].state = "started" /\ jobs[q].state = "started")
               => jobs[p].procnum # jobs[q].procnum

\* C6 witness: in a second or later run, one worker has stored its result
\* while another worker of the same run is still live.
C6_Witness ==
    \E p, q \in 1..Len(jobs) :
        /\ jobs[p].run >= 1
        /\ jobs[p].run = jobs[q].run
        /\ jobs[p].state = "started"
        /\ jobs[q].state = "exited"
        /\ jobs[q].wrote = <<jobs[q].procnum>>

\* C7: partition when divisible.  When W divides side_size, get_xy_pairs
\* returns W bands whose x index ranges are pairwise disjoint and together
\* are all of 1..side_size (the indices [0, side_size) counted from 1).
C7_PartitionDivisible ==
    (HaveBands /\ CurSide % W = 0) =>
        LET idx == BandXIdxs
        IN  /\ Len(job_pairs) = W
            /\ \A b, e \in 1..Len(job_pairs) : b # e => idx[b] \cap idx[e] = {}
            /\ UNION {idx[b] : b \in 1..Len(job_pairs)} = 1..CurSide

\* C7 witness: two non-empty bands of a divisible grid.
C7_Witness ==
    /\ HaveBands
    /\ W = 2
    /\ CurSide = 4
    /\ BandXIdx(1) = {1, 2}
    /\ BandXIdx(2) = {3, 4}

\* C8: documented truncation.  When W does not divide side_size (side_size
\* < W included), the trailing side_size mod W x-values are in no band and
\* every other x-value is in exactly one band.
C8_Truncation ==
    (HaveBands /\ CurSide % W # 0) =>
        LET idx == BandXIdxs
        IN  \A a \in 1..CurSide :
                Cardinality({b \in 1..Len(job_pairs) : a \in idx[b]})
                    = IF a > CurSide - (CurSide % W) THEN 0 ELSE 1

\* C8 witness: a grid of 3 columns for 2 workers, whose last column is in no
\* band.
C8_Witness ==
    /\ HaveBands
    /\ W = 2
    /\ CurSide = 3
    /\ BandXIdx(1) = {1}
    /\ BandXIdx(2) = {2}

\* C8 witness of the case side_size < W: every band is empty.
C8_WitnessSmall ==
    /\ HaveBands
    /\ CurSide < W
    /\ \A b \in 1..Len(job_pairs) : job_pairs[b] = <<>>

\* The image of a failure-free run of the given side_size: one column per
\* x-value that is in a band, one row per y-value, white where the point is
\* classified a member.
ExpectedImage(side_size) ==
    LET xs == AxisValues(side_size, args.xrange)
        ys == AxisValues(side_size, args.yrange)
        cols == (side_size \div W) * W
    IN  [size  |-> <<cols, side_size>>,
         white |-> {ac \in (0..(cols - 1)) \X (0..(side_size - 1)) :
                       mandelbrodt_pixel(xs[ac[1] + 1], ys[ac[2] + 1], args.steps)},
         ok    |-> TRUE]

\* The file names of the runs before the current one.
NamesBefore(r) == {<<SizesPerRun[k], (k - 1) % args.reps>> : k \in 1..r}

\* C9: end-to-end determinism.  In an execution without worker failure the
\* images saved, and whether the harness dies in draw_fractal, are a function
\* of the configuration alone: every saved image is the image of its
\* side_size, the files saved are those of the runs drawn so far, and the
\* harness dies exactly on a run whose bands are all empty.
C9_Determinism ==
    (NoCrashEver /\ args.draw_fractals) =>
        /\ \A k \in 1..Len(files) : files[k].image = ExpectedImage(files[k].name[1])
        /\ {files[k].name : k \in 1..Len(files)} = NamesBefore(RunNo)
        /\ pc = "crashed" => CurSide < W
        /\ (pc = "loop" /\ RunNo >= 1) => SizesPerRun[RunNo] >= W

\* C9 witness: two images are saved, the workers of the first run stored
\* their results in reverse order of their indices, and the last image has
\* both white and black pixels in more than one column.
C9_Witness ==
    /\ NoCrashEver
    /\ Len(files) >= 2
    /\ Len(return_dict) = 2
    /\ return_dict[1].key = 1
    /\ files[Len(files)].image.white # {}
    /\ files[Len(files)].image.size[1] >= 2
    /\ Cardinality(files[Len(files)].image.white) < files[Len(files)].image.size[1] * files[Len(files)].image.size[2]

\* ------------------------------------------ draw_fractal on its own inputs
MaxBandLen == 2

\* Coordinates and result rows for the rasteriser taken alone.
DrawCoords == {<<-2, 1>>, <<1, 2>>}

DrawRows == DrawCoords \X DrawCoords \X {0, 1}

DrawLists == UNION {[1..n -> DrawRows] : n \in 0..MaxBandLen}

\* A Result Collection of two bands, keys in order.
DrawDicts ==
    {<<[key |-> 0, value |-> v0], [key |-> 1, value |-> v1]>> : v0 \in DrawLists, v1 \in DrawLists}

\* s with the elements at k and k + 1 exchanged.
SwapAt(s, k) ==
    [m \in 1..Len(s) |-> IF m = k THEN s[k + 1] ELSE IF m = k + 1 THEN s[k] ELSE s[m]]

\* The entries of d in ascending key order.
RECURSIVE ByKey(_)
ByKey(d) ==
    IF Len(d) = 0 THEN <<>>
    ELSE LET m == CHOOSE k \in 1..Len(d) : \A o \in 1..Len(d) : d[k].key <= d[o].key
         IN  <<d[m]>> \o ByKey([o \in 1..(Len(d) - 1) |-> IF o < m THEN d[o] ELSE d[o + 1]])

InitDraw ==
    /\ args = [num_workers |-> 2, xrange |-> <<-4, 2>>, yrange |-> <<-3, 3>>,
               side_size |-> <<2>>, steps |-> 1, reps |-> 1, draw_fractals |-> TRUE]
    /\ pc = "draw"
    /\ side_idx = 1
    /\ rep = 0
    /\ job_pairs = <<>>
    /\ i = 0
    /\ jobs = <<>>
    /\ jn = 1
    /\ return_dict \in DrawDicts
    /\ times = <<>>
    /\ printed = <<>>
    /\ output = Flatten(return_dict)
    /\ files = FilePut(<<>>, <<CurSide, rep>>, draw_fractal(output))
    /\ csv = <<>>
    /\ writer = [k \in 0..1 |-> 0]
    /\ frame = NoFrame

\* The bands were stored in another order: flatten and draw again.
SwapBands ==
    /\ \E k \in 1..(Len(return_dict) - 1) : return_dict' = SwapAt(return_dict, k)
    /\ output' = Flatten(return_dict')
    /\ files' = FilePut(files, <<CurSide, rep>>, draw_fractal(output'))
    /\ UNCHANGED <<args, pc, side_idx, rep, job_pairs, i, jobs, jn, times, printed,
                   csv, writer, frame>>

\* The flattened list in another order: draw again.
SwapResults ==
    /\ \E k \in 1..(Len(output) - 1) : output' = SwapAt(output, k)
    /\ files' = FilePut(files, <<CurSide, rep>>, draw_fractal(output'))
    /\ UNCHANGED <<args, pc, side_idx, rep, job_pairs, i, jobs, jn, return_dict,
                   times, printed, csv, writer, frame>>

NextDraw ==
    \/ SwapBands
    \/ SwapResults

SpecDraw == InitDraw /\ [][NextDraw]_vars

\* C10: order-independent rendering.  Whatever the order in which the Band
\* Results were stored and the flattened list is arranged, the image drawn
\* is the image of the collection flattened in key order.
C10_OrderIndependent ==
    /\ Len(files) = 1
    /\ files[1].image = draw_fractal(Flatten(ByKey(return_dict)))

\* C10 witness: the list drawn is not in key order, holds the same pixel
\* both as a member and as a non-member (member first), and has two columns.
C10_Witness ==
    /\ output # Flatten(ByKey(return_dict))
    /\ \E j, k \in 1..Len(output) :
           /\ j < k
           /\ output[j][1] = output[k][1]
           /\ output[j][2] = output[k][2]
           /\ output[j][3] = 1
           /\ output[k][3] = 0
    /\ files[1].image.size[1] = 2
    /\ files[1].image.white # {}

\* --------------------------------------- mandelbrodt_pixel on its own inputs
MaxPixelSteps == 2

MaxPixelNum == 5

\* Coordinates in half units from -MaxPixelNum/2 to MaxPixelNum/2.
PixelCoords == {Norm(n, 2) : n \in (-MaxPixelNum)..MaxPixelNum}

InitPixel ==
    /\ args = [num_workers |-> 1, xrange |-> <<-4, 2>>, yrange |-> <<-3, 3>>,
               side_size |-> <<1>>, steps |-> 1, reps |-> 1, draw_fractals |-> FALSE]
    /\ pc = "loop"
    /\ side_idx = 1
    /\ rep = 0
    /\ job_pairs = <<>>
    /\ i = 0
    /\ jobs = <<>>
    /\ jn = 1
    /\ return_dict = <<>>
    /\ times = <<>>
    /\ printed = <<>>
    /\ files = <<>>
    /\ csv = <<>>
    /\ output = <<>>
    /\ writer = [k \in 0..0 |-> 0]
    /\ frame \in {PixelCall(x, y, st) : x \in PixelCoords, y \in PixelCoords,
                                        st \in 0..MaxPixelSteps}

\* The call advances by one pass of its loop.
PixelStep ==
    /\ frame.ret = "run"
    /\ frame' = PixelPass(frame)
    /\ UNCHANGED <<args, pc, side_idx, rep, job_pairs, i, jobs, jn, return_dict,
                   times, printed, files, csv, output, writer>>

NextPixel == PixelStep

SpecPixel == InitPixel /\ [][NextPixel]_vars

\* re^2 + im^2 of a complex number <<re, im>>.
AbsSq(z) == FAdd(FMul(z[1], z[1]), FMul(z[2], z[2]))

\* The k-th iterate of z <- z^2 + c from z = 0.
RECURSIVE Orbit(_, _)
Orbit(c, k) ==
    IF k = 0 THEN <<FInt(0), FInt(0)>>
    ELSE LET z == Orbit(c, k - 1)
         IN  <<FAdd(FSub(FMul(z[1], z[1]), FMul(z[2], z[2])), c[1]),
               FAdd(FMul(FInt(2), FMul(z[1], z[2])), c[2])>>

Returned == frame.ret \in {"True", "False"}

OutsideRadius2 == FGeq(AbsSq(<<frame.x, frame.y>>), FInt(4))

\* C11 (as claimed): a call with steps = 0 on a sample with x^2 + y^2 >= 4
\* returns false.
C11_EscapeAtZeroSteps ==
    (Returned /\ frame.steps = 0 /\ OutsideRadius2) => frame.ret = "False"

\* C11 (amended): a call with steps >= 1 on a sample with x^2 + y^2 >= 4
\* returns false, in its second pass; a call with steps = 0 returns true for
\* every sample, its only pass testing z = 0.
C11_EscapeFromOneStep ==
    Returned =>
        /\ (frame.steps >= 1 /\ OutsideRadius2) =>
               (frame.ret = "False" /\ frame.counter = 2)
        /\ frame.steps = 0 => (frame.ret = "True" /\ frame.counter = 1)

\* C11 witness: the sample (2, 0), on the circle of radius 2, has been
\* classified with steps = 1.
C11_Witness ==
    /\ Returned
    /\ frame.steps = 1
    /\ frame.x = FInt(2)
    /\ frame.y = FInt(0)
    /\ frame.ret = "False"

\* ------------------------------------------------- claims on the harness
\* The side_size of run number r (from 0).
SideOfRun(r) == SizesPerRun[r + 1]

\* C12: configuration errors are rejected before dispatch.  No process is
\* ever started for a run whose side_size is smaller than the worker count.
C12_ConfigRejected ==
    \A p \in 1..Len(jobs) : SideOfRun(jobs[p].run) >= W

\* ------------------------------------------------ claims on the rasteriser
\* The number of distinct values of arr smaller than v.
RankOf(v, arr) == Cardinality({w \in Range(arr) : FLess(w, v)})

\* The image last saved.
Image == files[1].image

\* C13: rank mapping.  Along each axis every coordinate of the drawn list is
\* mapped to its 0-based rank among the distinct values of that axis, the
\* ranks used are exactly 0..k-1 for k distinct values, and every painted
\* pixel lies inside the k_x by k_y image.
C13_RankMapping ==
    Len(output) > 0 =>
        LET xs == Column(output, 1)
            ys == Column(output, 2)
            x == get_ranks(xs)
            y == get_ranks(ys)
        IN  /\ \A k \in 1..Len(output) :
                   /\ x[k] = RankOf(xs[k], xs)
                   /\ y[k] = RankOf(ys[k], ys)
            /\ Range(x) = 0..(Cardinality(Range(xs)) - 1)
            /\ Range(y) = 0..(Cardinality(Range(ys)) - 1)
            /\ Image.ok
            /\ Image.white \subseteq
                   (0..(Cardinality(Range(xs)) - 1)) \X (0..(Cardinality(Range(ys)) - 1))
            /\ Image.white \subseteq
                   (0..(Image.size[1] - 1)) \X (0..(Image.size[2] - 1))

\* C13 witness: a drawn list with two distinct values on each axis, the
\* larger x and the larger y appearing first, and a pixel painted at the
\* highest rank of both axes.
C13_Witness ==
    /\ Len(output) >= 2
    /\ FLess(output[2][1], output[1][1])
    /\ FLess(output[2][2], output[1][2])
    /\ <<1, 1>> \in Image.white

\* C14: timing record.  Once the timing file is written it has one row per
\* (resolution, repetition) pair, in the order the runs executed, and the
\* side_size of each row is the resolution of the run whose time it holds.
C14_TimingRecord ==
    pc = "finished" =>
        /\ Len(csv) = Len(args.side_size) * args.reps
        /\ Len(printed) = Len(csv)
        /\ \A k \in 1..Len(csv) :
               /\ csv[k].time.run = k - 1
               /\ printed[k].run = k - 1
               /\ printed[k].rep = (k - 1) % args.reps
               /\ printed[k].side_size = args.side_size[((k - 1) \div args.reps) + 1]
               /\ csv[k].side_size = printed[k].side_size

\* C14 witness: the timing file of two repetitions of two different
\* resolutions has been written.
C14_Witness ==
    /\ pc = "finished"
    /\ Len(csv) = 4
    /\ csv[2].side_size # csv[3].side_size

\* ------------------------------------------------ claims on the classifier
\* No z among the first n the call has tested had re^2 + im^2 >= 4.
NoneEscaped(n) == \A k \in 1..n : FLess(AbsSq(frame.seen[k]), FInt(4))

\* C15: the classifier.  From z = 0 the call makes at most steps + 1 passes,
\* pass k testing the (k-1)-th iterate of z <- z^2 + c before updating it;
\* it returns false at the first pass whose z has re^2 + im^2 >= 4 and true
\* exactly when none of steps + 1 passes sees such a z; (0, 0) gives true.
C15_Classifier ==
    /\ frame.counter <= frame.steps + 1
    /\ Len(frame.seen) = frame.counter
    /\ \A k \in 1..frame.counter :
           frame.seen[k] = Orbit(<<frame.x, frame.y>>, k - 1)
    /\ frame.ret = "run" => NoneEscaped(frame.counter)
    /\ frame.ret = "False" =>
           /\ frame.counter >= 1
           /\ NoneEscaped(frame.counter - 1)
           /\ FGeq(AbsSq(frame.seen[frame.counter]), FInt(4))
    /\ frame.ret = "True" =>
           /\ frame.counter = frame.steps + 1
           /\ NoneEscaped(frame.counter)
    /\ (Returned /\ frame.x = FInt(0) /\ frame.y = FInt(0)) => frame.ret = "True"
    /\ Returned =>
           (frame.ret = "True") = mandelbrodt_pixel(frame.x, frame.y, frame.steps)

\* C15 witness: a call with steps = 2 has returned false in its third and
\* last pass: the sample is inside the circle, its second iterate is not.
C15_Witness ==
    /\ frame.ret = "False"
    /\ frame.steps = 2
    /\ frame.counter = 3
    /\ ~OutsideRadius2

\* The results of the drawn list that fall on pixel (a, b).
ResultsAt(a, b) ==
    {k \in 1..Len(output) :
        /\ RankOf(output[k][1], Column(output, 1)) = a
        /\ RankOf(output[k][2], Column(output, 2)) = b}

\* C16: painting.  The image is as wide as the drawn list has distinct x
\* values and as high as it has distinct y values; pixel (a, b) is white
\* exactly when at least one result with x-rank a and y-rank b is a member.
C16_Painting ==
    Len(output) > 0 =>
        LET k_x == Cardinality(Range(Column(output, 1)))
            k_y == Cardinality(Range(Column(output, 2)))
        IN  /\ Image.ok
            /\ Image.size = <<k_x, k_y>>
            /\ \A a \in 0..(k_x - 1), b \in 0..(k_y - 1) :
                   (<<a, b>> \in Image.white) <=>
                       (\E k \in ResultsAt(a, b) : output[k][3] = 1)
            /\ \A ab \in Image.white : ab[1] \in 0..(k_x - 1) /\ ab[2] \in 0..(k_y - 1)

\* C16 witness: pixel (0, 1) is white through a member that comes after a
\* non-member of the same pixel, pixel (1, 0) has only a non-member and is
\* black.
C16_Witness ==
    /\ Len(output) >= 3
    /\ <<0, 1>> \in Image.white
    /\ <<1, 0>> \notin Image.white
    /\ ResultsAt(1, 0) # {}
    /\ \E j, k \in ResultsAt(0, 1) : j < k /\ output[j][3] = 0 /\ output[k][3] = 1

\* Sample p comes before sample q: smaller x, or the same x and smaller y.
Before(p, q) == FLess(p[1], q[1]) \/ (p[1] = q[1] /\ FLess(p[2], q[2]))

\* C17: band-to-result mapping.  Band i holds its x-values crossed with all
\* y-values, x ascending in the outer loop and y ascending in the inner one;
\* the worker of band i is given that band, and the Band Result under key i
\* holds one result per sample of its writer's band, in the same order, with
\* the same (x, y) and the classifier's result as member flag.
C17_BandResult ==
    /\ HaveBands =>
           LET xs == XValues
               ys == YValues
               len == CurSide \div W
           IN  \A b \in 1..Len(job_pairs) :
                   LET band == job_pairs[b]
                   IN  /\ Len(band) = len * CurSide
                       /\ Range(band) =
                              {xs[a] : a \in ((b - 1) * len + 1)..(b * len)} \X Range(ys)
                       /\ \A j, k \in 1..Len(band) : j < k => Before(band[j], band[k])
    /\ \A p \in JobsOfRun(RunNo) :
           HaveBands => jobs[p].xy_values = job_pairs[jobs[p].procnum + 1]
    /\ \A e \in 1..Len(return_dict) :
           LET key == return_dict[e].key
               value == return_dict[e].value
               band == jobs[writer[key]].xy_values
           IN  /\ writer[key] # 0
               /\ jobs[writer[key]].procnum = key
               /\ jobs[writer[key]].state = "exited"
               /\ Len(value) = Len(band)
               /\ \A k \in 1..Len(value) :
                      /\ value[k][1] = band[k][1]
                      /\ value[k][2] = band[k][2]
                      /\ value[k][3] = BoolInt(mandelbrodt_pixel(band[k][1], band[k][2],
                                                                 args.steps))

\* C17 witness: of two bands of two x-values each, both stored in this run,
\* the Band Result of band 0 holds a member and a non-member.
C17_Witness ==
    /\ HaveBands
    /\ CurSide \div W = 2
    /\ W = 2
    /\ FreshKey(1)
    /\ \E e \in 1..Len(return_dict) :
           /\ return_dict[e].key = 0
           /\ FreshKey(0)
           /\ Len(return_dict[e].value) >= 4
           /\ \E j, k \in 1..Len(return_dict[e].value) :
                  return_dict[e].value[j][3] = 1 /\ return_dict[e].value[k][3] = 0

\* No run is between the start of its first worker and the end of its join
\* loop.
Quiet ==
    \/ pc \in {"loop", "joined", "draw", "finished", "crashed"}
    \/ (pc = "dispatch" /\ i = 0)

\* C19: stable snapshot.  From the end of a run's join loop until the first
\* worker of the next run is started no process of any run is still running
\* and no step modifies return_dict.
C19_StableSnapshot ==
    /\ [](Quiet => \A p \in 1..Len(jobs) : jobs[p].state # "started")
    /\ [][Quiet => return_dict' = return_dict]_vars

\* C19 witness: the second run is about to be flattened, after a join loop
\* over the processes of both runs, with both Band Results in return_dict.
C19_Witness ==
    /\ pc = "draw"
    /\ RunNo >= 1
    /\ Len(jobs) > W
    /\ Len(return_dict) = 2


\* Every run of the configuration has passed its join loop and been timed.
AllRunsDone == Len(times) = Len(args.side_size) * args.reps

\* The main process has stopped: after the timing file, or by an exception.
Stopped == pc \in {"finished", "crashed"}

\* C18: liveness of the executor.  The harness completes all
\* (number of side sizes) x reps runs: when every worker ran to its end, the
\* main process never stops with a run left to do, and its dispatch and join
\* loops can always take their next step, except a join on a worker that has
\* not terminated yet.
C18_HarnessCompletes ==
    /\ (Stopped /\ NoCrashEver) => AllRunsDone
    /\ pc = "dispatch" => i < Len(job_pairs)
    /\ pc = "join" => jn <= Len(jobs)

====
